---- MODULE Spec2Model ----
(***************************************************************************)
(* A model of FinancialDataStore (src/core/data_storage.py): the dataset   *)
(* store with its per-column indexes, its SQLite mirror, the equality      *)
(* filter, the group-by aggregation and the connection's life cycle.       *)
(*                                                                         *)
(* Text (dataset names, column names, string cells) is a sequence of       *)
(* one-character strings, so that sanitization and str() are computed      *)
(* character by character.  A Decimal is an integer number of hundredths,  *)
(* a date is the integer yyyymmdd.  Row ids are 0-based as in pandas; the  *)
(* frames handed to the store carry the default RangeIndex, so a row's     *)
(* label is its position.                                                  *)
(***************************************************************************)
EXTENDS Integers, Sequences, FiniteSets, TLC

VARIABLES data, metadata, indexes, tables, conn_open, releases, last

vars == <<data, metadata, indexes, tables, conn_open, releases, last>>
store == <<data, metadata, indexes, tables, conn_open, releases>>

(***************************************************************************)
(* Cells                                                                   *)
(***************************************************************************)
Null == [k |-> "null", n |-> 0, s |-> <<>>]
DateV(n) == [k |-> "date", n |-> n, s |-> <<>>]
Dec(n) == [k |-> "dec", n |-> n, s |-> <<>>]
Text(s) == [k |-> "str", n |-> 0, s |-> s]
FloatV(n) == [k |-> "float", n |-> n, s |-> <<>>]
IntV(n) == [k |-> "int", n |-> n, s |-> <<>>]

\* pd.notna(val)
notna(c) == c.k # "null"

\* isinstance(val, date) / isinstance(val, Decimal)
isdate(c) == c.k = "date"
isdecimal(c) == c.k = "dec"

(***************************************************************************)
(* Text                                                                    *)
(***************************************************************************)
DigitChars == <<"0", "1", "2", "3", "4", "5", "6", "7", "8", "9">>

\* The characters of the model in code-point order.
Alphabet ==
    <<" ", "$", "-", ".">> \o DigitChars \o
    <<"A", "C", "D", "E", "M", "R", "X", "_",
      "a", "b", "c", "d", "e", "m", "n", "o", "p", "t", "u", "v", "x">>

ord(ch) == CHOOSE i \in 1..Len(Alphabet) : Alphabet[i] = ch

\* str.isalnum for one character
isalnum(ch) == ch \notin {" ", "$", "-", ".", "_"}

RECURSIVE NatStr(_)
NatStr(n) == IF n < 10 THEN <<DigitChars[n + 1]>>
             ELSE NatStr(n \div 10) \o <<DigitChars[(n % 10) + 1]>>

\* n written with at least w digits
RECURSIVE Pad(_, _)
Pad(s, w) == IF Len(s) >= w THEN s ELSE Pad(<<"0">> \o s, w)

\* str(Decimal) of a two-place decimal, e.g. Decimal('-2500.00')
StrDecimal(n) ==
    LET a == IF n < 0 THEN 0 - n ELSE n
    IN  (IF n < 0 THEN <<"-">> ELSE <<>>)
        \o NatStr(a \div 100) \o <<".">> \o Pad(NatStr(a % 100), 2)

\* date.isoformat() of the date yyyymmdd
isoformat(n) ==
    Pad(NatStr(n \div 10000), 4) \o <<"-">>
    \o Pad(NatStr((n \div 100) % 100), 2) \o <<"-">> \o Pad(NatStr(n % 100), 2)

\* The digits of a fraction of w places without its trailing zeros
RECURSIVE FractionDigits(_, _)
FractionDigits(n, w) ==
    IF w > 1 /\ n % 10 = 0 THEN FractionDigits(n \div 10, w - 1)
    ELSE Pad(NatStr(n), w)

\* str(float) of a float of n/100000, e.g. '1.5', '1234.56', '2.0'
StrFloat(n) ==
    LET a == IF n < 0 THEN 0 - n ELSE n
    IN  (IF n < 0 THEN <<"-">> ELSE <<>>)
        \o NatStr(a \div 100000) \o <<".">> \o FractionDigits(a % 100000, 5)

\* str(val)
str(c) ==
    CASE c.k = "str" -> c.s
      [] c.k = "dec" -> StrDecimal(c.n)
      [] c.k = "date" -> isoformat(c.n)
      [] c.k = "null" -> <<"N", "o", "n", "e">>
      [] c.k = "float" -> StrFloat(c.n)
      [] OTHER -> (IF c.n < 0 THEN <<"-">> ELSE <<>>)
                  \o NatStr(IF c.n < 0 THEN 0 - c.n ELSE c.n)

\* s.strip('_')
RECURSIVE lstrip(_)
lstrip(s) == IF s # <<>> /\ Head(s) = "_" THEN lstrip(Tail(s)) ELSE s
RECURSIVE rstrip(_)
rstrip(s) == IF s # <<>> /\ s[Len(s)] = "_"
             THEN rstrip(SubSeq(s, 1, Len(s) - 1)) ELSE s
strip(s) == rstrip(lstrip(s))

KeepIdentChar(ch) == isalnum(ch) \/ ch = "_"

_sanitize_column_name(name) == strip(SelectSeq(name, KeepIdentChar))

_sanitize_table_name(name) == strip(SelectSeq(name, KeepIdentChar))

\* lexicographic order of two texts
RECURSIVE TextLess(_, _)
TextLess(a, b) ==
    IF b = <<>> THEN FALSE
    ELSE IF a = <<>> THEN TRUE
    ELSE IF Head(a) # Head(b) THEN ord(Head(a)) < ord(Head(b))
    ELSE TextLess(Tail(a), Tail(b))

(***************************************************************************)
(* Dictionaries and frames                                                 *)
(***************************************************************************)
EmptyDict == <<>>

Put(d, key, val) ==
    [x \in (DOMAIN d) \cup {key} |-> IF x = key THEN val ELSE d[x]]

Remove(d, key) == [x \in (DOMAIN d) \ {key} |-> d[x]]

Range(s) == {s[i] : i \in DOMAIN s}

\* A DataFrame: its column labels and its rows, each row a tuple of cells.
DataFrame(cols, rws) == [columns |-> cols, rows |-> rws]

EmptyFrame == DataFrame(<<>>, <<>>)

ColPos(df, col) == CHOOSE i \in 1..Len(df.columns) : df.columns[i] = col

\* df[col] as the sequence of its cells
Column(df, col) == [i \in 1..Len(df.rows) |-> df.rows[i][ColPos(df, col)]]

\* range(len(df)) as a sequence
RowIds(df) == [i \in 1..Len(df.rows) |-> i - 1]

(***************************************************************************)
(* _create_indexes                                                         *)
(***************************************************************************)
\* column_types is the dict {col: {'type': ...}} in insertion order: a
\* sequence of [col, type] entries.
ColType(col, type) == [col |-> col, type |-> type]

TypeCols(column_types) == {column_types[i].col : i \in DOMAIN column_types}

\* column_types[col]['type']
TypeOf(column_types, col) ==
    LET i == CHOOSE j \in DOMAIN column_types : column_types[j].col = col
    IN  column_types[i].type

IsDateEntry(e) == e.type = "Date"
IsNumberEntry(e) == e.type = "Number"
IsCategoryEntry(e) == e.type \notin {"Date", "Number"}

\* the row ids, ascending, whose cell in col satisfies Test
RowsWhere(df, col, Test(_)) ==
    LET cells == Column(df, col)
        Keep(i) == Test(cells[i + 1])
    IN  SelectSeq(RowIds(df), Keep)

\* date -> list of row indices, for the cells that are dates
DateIndexOf(df, col) ==
    LET cells == Column(df, col)
        keys == {c \in Range(cells) : notna(c) /\ isdate(c)}
    IN  [v \in keys |-> RowsWhere(df, col, LAMBDA c : c = v)]

\* str(value) -> list of row indices, for the non-null cells
CategoryIndexOf(df, col) ==
    LET cells == Column(df, col)
        keys == {str(c) : c \in {x \in Range(cells) : notna(x)}}
    IN  [key \in keys |-> RowsWhere(df, col, LAMBDA c : notna(c) /\ str(c) = key)]

\* Python's < between two cell values: a Decimal, a str and a date order only
\* with their own kind (TypeError otherwise).
Comparable(a, b) == a.k = b.k

CellLess(a, b) == IF a.k = "str" THEN TextLess(a.s, b.s) ELSE a.n < b.n

\* df[col].dropna() as [idx, val] entries
DropNa(df, col) ==
    LET cells == Column(df, col)
        ids == RowsWhere(df, col, notna)
    IN  [i \in 1..Len(ids) |-> [idx |-> ids[i], val |-> cells[ids[i] + 1]]]

Orderable(entries) ==
    \A i, j \in DOMAIN entries : Comparable(entries[i].val, entries[j].val)

\* sort_values(): ascending by value, equal values in row order
RECURSIVE InsertSorted(_, _)
InsertSorted(sorted, e) ==
    IF sorted = <<>> THEN <<e>>
    ELSE IF CellLess(e.val, Head(sorted).val)
         THEN <<e>> \o sorted
         ELSE <<Head(sorted)>> \o InsertSorted(Tail(sorted), e)

RECURSIVE SortValues(_)
SortValues(entries) ==
    IF entries = <<>> THEN <<>>
    ELSE InsertSorted(SortValues(SubSeq(entries, 1, Len(entries) - 1)),
                      entries[Len(entries)])

\* pd.MultiIndex.from_frame(df), built when the frame has several columns
MultiIndexOf(df) ==
    IF Len(df.columns) > 1
    THEN [present |-> TRUE, tuples |-> df.rows]
    ELSE [present |-> FALSE, tuples |-> <<>>]

\* The exception that leaves _create_indexes, or "ok": df[col] raises KeyError
\* for a typed column the frame lacks, sort_values raises TypeError on a
\* Number column whose values do not order.
IndexBuildError(df, column_types) ==
    IF \E c \in TypeCols(column_types) : c \notin Range(df.columns)
    THEN "KeyError"
    ELSE IF \E i \in DOMAIN column_types :
               /\ IsNumberEntry(column_types[i])
               /\ ~Orderable(DropNa(df, column_types[i].col))
         THEN "TypeError"
         ELSE "ok"

\* index_store as _create_indexes builds it
_create_indexes(df, column_types) ==
    LET date_cols == {e.col : e \in {x \in Range(column_types) : IsDateEntry(x)}}
        numeric_cols ==
            {e.col : e \in {x \in Range(column_types) : IsNumberEntry(x)}}
        category_cols ==
            {e.col : e \in {x \in Range(column_types) : IsCategoryEntry(x)}}
        indexed_numeric == {c \in numeric_cols : DropNa(df, c) # <<>>}
    IN  [date_columns |-> [c \in date_cols |-> DateIndexOf(df, c)],
         numeric_columns |-> [c \in indexed_numeric |-> SortValues(DropNa(df, c))],
         category_columns |-> [c \in category_cols |-> CategoryIndexOf(df, c)],
         multi_index |-> MultiIndexOf(df)]

(***************************************************************************)
(* _load_to_sqlite                                                         *)
(***************************************************************************)
Sanitized(cols) == [i \in DOMAIN cols |-> _sanitize_column_name(cols[i])]

HasDuplicates(seq) == \E i, j \in DOMAIN seq : i # j /\ seq[i] = seq[j]

\* One pass of the conversion loop over a cell of the column named safe_col:
\* x.isoformat() for a date under a Date entry, str(x) for a Decimal under a
\* Number entry; every column_types entry whose sanitized name is safe_col
\* takes its turn, in dictionary order.
ConvertCell(type, c) ==
    IF type = "Date" /\ isdate(c) THEN Text(isoformat(c.n))
    ELSE IF type = "Number" /\ isdecimal(c) THEN Text(str(c))
    ELSE c

\* the conversions of the entries types, applied in turn
RECURSIVE ConvertBy(_, _)
ConvertBy(types, c) ==
    IF types = <<>> THEN c ELSE ConvertBy(Tail(types), ConvertCell(Head(types), c))

\* What sqlite3 stores for a bound parameter: a date through the default
\* adapter (isoformat), a Decimal through adapt_decimal (str).
adapt(c) ==
    IF isdate(c) THEN Text(isoformat(c.n))
    ELSE IF isdecimal(c) THEN Text(str(c))
    ELSE c

\* df_copy after the renaming and the per-type conversions.  Under a duplicated
\* sanitized name df_copy[safe_col] is a frame, whose apply leaves the cells.
MirrorFrame(df, column_types) ==
    LET cols == Sanitized(df.columns)
        safe_col == [j \in DOMAIN column_types |->
                       _sanitize_column_name(column_types[j].col)]
        entries == [j \in DOMAIN column_types |-> j]
        types == [i \in DOMAIN cols |->
                    LET hits == SelectSeq(entries, LAMBDA j : safe_col[j] = cols[i])
                    IN  [h \in DOMAIN hits |-> column_types[hits[h]].type]]
        duplicated == HasDuplicates(cols)
    IN  DataFrame(cols,
          [r \in DOMAIN df.rows |->
             [i \in DOMAIN cols |->
                IF duplicated THEN df.rows[r][i]
                ELSE ConvertBy(types[i], df.rows[r][i])]])

StoredFrame(df) ==
    DataFrame(df.columns,
      [r \in DOMAIN df.rows |-> [i \in DOMAIN df.columns |-> adapt(df.rows[r][i])]])

\* to_sql with if_exists='append': the rows are added to the table that
\* is there.
to_sql_append(tbls, open, table_name, df_copy) ==
    IF table_name = <<>> \/ <<>> \in Range(df_copy.columns)
    THEN [status |-> "ValueError", tables |-> tbls]
    ELSE IF ~open
    THEN [status |-> "ProgrammingError", tables |-> tbls]
    ELSE IF HasDuplicates(df_copy.columns)
    THEN [status |-> "OperationalError", tables |-> tbls]
    ELSE IF table_name \in DOMAIN tbls
            /\ tbls[table_name].columns = df_copy.columns
    THEN [status |-> "ok",
          tables |-> Put(tbls, table_name,
                         DataFrame(df_copy.columns,
                                   tbls[table_name].rows
                                     \o StoredFrame(df_copy).rows))]
    ELSE [status |-> "ok", tables |-> Put(tbls, table_name, StoredFrame(df_copy))]

\* df_copy.to_sql(table_name, conn, if_exists='replace', index=False).
\* pandas refuses an empty table or column name before it touches the
\* database; a closed connection fails at the first statement; otherwise the
\* old table is dropped and then created anew, and the CREATE fails on a
\* duplicate column name, after the drop.
to_sql(tbls, open, table_name, df_copy) ==
    IF table_name = <<>> \/ <<>> \in Range(df_copy.columns)
    THEN [status |-> "ValueError", tables |-> tbls]
    ELSE IF ~open
    THEN [status |-> "ProgrammingError", tables |-> tbls]
    ELSE IF HasDuplicates(df_copy.columns)
    THEN [status |-> "OperationalError", tables |-> Remove(tbls, table_name)]
    ELSE [status |-> "ok", tables |-> Put(tbls, table_name, StoredFrame(df_copy))]

_load_to_sqlite(tbls, open, name, df, column_types) ==
    to_sql(tbls, open, _sanitize_table_name(name), MirrorFrame(df, column_types))

(***************************************************************************)
(* The store                                                               *)
(***************************************************************************)
NoCall == [op |-> "init"]

\* __init__ and _init_sqlite: empty dictionaries, the connection acquired
Init ==
    /\ data = EmptyDict
    /\ metadata = EmptyDict
    /\ indexes = EmptyDict
    /\ tables = EmptyDict
    /\ conn_open = TRUE
    /\ releases = 0
    /\ last = NoCall

\* add_dataset(name, df, column_types) on the dictionaries dat, meta, idxs and
\* the mirror tbls: the rows and the metadata are stored first, then the
\* indexes are built and stored, then the mirror is loaded; an exception ends
\* the call where it is raised.
add_dataset_effect(dat, meta, idxs, tbls, open, name, df, column_types) ==
    LET err == IndexBuildError(df, column_types)
        load == _load_to_sqlite(tbls, open, name, df, column_types)
    IN  [data |-> Put(dat, name, df),
         metadata |-> Put(meta, name, column_types),
         indexes |-> IF err = "ok"
                     THEN Put(idxs, name, _create_indexes(df, column_types))
                     ELSE idxs,
         tables |-> IF err = "ok" THEN load.tables ELSE tbls,
         status |-> IF err # "ok" THEN err ELSE load.status]

AddDatasetCall(name, df, column_types, status) ==
    [op |-> "add_dataset", name |-> name, df |-> df,
     column_types |-> column_types, result |-> [status |-> status]]

add_dataset(name, df, column_types) ==
    LET eff == add_dataset_effect(data, metadata, indexes, tables, conn_open,
                                  name, df, column_types)
    IN  /\ data' = eff.data
        /\ metadata' = eff.metadata
        /\ indexes' = eff.indexes
        /\ tables' = eff.tables
        /\ UNCHANGED <<conn_open, releases>>
        /\ last' = AddDatasetCall(name, df, column_types, eff.status)

\* A close that releases the connection whether or not it is still open.
connection_close_again ==
    /\ conn_open' = FALSE
    /\ releases' = releases + 1

\* sqlite3.Connection.close(): releases an open connection, does nothing on a
\* closed one
connection_close ==
    /\ conn_open' = FALSE
    /\ releases' = IF conn_open THEN releases + 1 ELSE releases

\* close(): self.sqlite_conn is never reset, so every call reaches
\* Connection.close()
close ==
    /\ connection_close
    /\ UNCHANGED <<data, metadata, indexes, tables>>
    /\ last' = [op |-> "close", was_open |-> conn_open,
                result |-> [status |-> "ok"]]

(***************************************************************************)
(* query_by_criteria                                                       *)
(***************************************************************************)
\* filters is the dict {column: value} in insertion order: a sequence of
\* [col, value] entries.
Filter(col, value) == [col |-> col, value |-> value]

\* dict.get(key, default)
Get(d, key, default) == IF key \in DOMAIN d THEN d[key] ELSE default

\* mask = df[col] == value; set(df[mask].index).  A null cell equals nothing.
ScanMatches(df, col, value) ==
    LET cells == Column(df, col)
    IN  {i - 1 : i \in {j \in DOMAIN cells : notna(cells[j]) /\ cells[j] = value}}

\* The row ids one filter entry matches: the date index under type 'Date',
\* the category index (keyed by str) under type 'String', the scan otherwise.
MatchingIndices(df, column_types, index_store, f) ==
    LET col_type == TypeOf(column_types, f.col)
        date_columns == Get(index_store, "date_columns", EmptyDict)
        category_columns == Get(index_store, "category_columns", EmptyDict)
    IN  IF col_type = "Date" /\ f.col \in DOMAIN date_columns
        THEN Range(Get(date_columns[f.col], f.value, <<>>))
        ELSE IF col_type = "String" /\ f.col \in DOMAIN category_columns
        THEN Range(Get(category_columns[f.col], str(f.value), <<>>))
        ELSE ScanMatches(df, f.col, f.value)

RECURSIVE ResultIndices(_, _, _, _, _)
ResultIndices(df, column_types, index_store, filters, acc) ==
    IF filters = <<>> THEN acc
    ELSE LET f == Head(filters)
             next == IF f.col \notin Range(df.columns) THEN acc
                     ELSE acc \cap MatchingIndices(df, column_types, index_store, f)
         IN  ResultIndices(df, column_types, index_store, Tail(filters), next)

\* sorted(a set of integers)
RECURSIVE sorted(_)
sorted(S) ==
    IF S = {} THEN <<>>
    ELSE LET m == CHOOSE x \in S : \A y \in S : x <= y
         IN  <<m>> \o sorted(S \ {m})

\* df.iloc[ids]: the rows at the positions ids, labelled by them
iloc(df, ids) == [i \in DOMAIN ids |-> df.rows[ids[i] + 1]]

Raised(status) ==
    [status |-> status, index |-> <<>>, frame |-> EmptyFrame]

Returned(ids, frame) == [status |-> "ok", index |-> ids, frame |-> frame]

\* query_by_criteria over the store's dictionaries.  metadata[name][col]
\* raises KeyError for a frame column without a type entry.
query_by_criteria_result(dat, meta, idxs, dataset_name, filters) ==
    IF dataset_name \notin DOMAIN dat THEN Raised("DatasetNotFound")
    ELSE
      LET df == dat[dataset_name]
          index_store == Get(idxs, dataset_name, EmptyDict)
          used == {i \in DOMAIN filters : filters[i].col \in Range(df.columns)}
      IN  IF \E i \in used : filters[i].col \notin TypeCols(meta[dataset_name])
          THEN Raised("KeyError")
          ELSE
            LET result_indices ==
                    ResultIndices(df, meta[dataset_name], index_store, filters,
                                  Range(RowIds(df)))
            IN  IF result_indices = {}
                THEN Returned(<<>>, DataFrame(df.columns, <<>>))
                ELSE Returned(sorted(result_indices),
                              DataFrame(df.columns, iloc(df, sorted(result_indices))))

query_by_criteria(dataset_name, filters) ==
    /\ UNCHANGED store
    /\ last' = [op |-> "query_by_criteria", name |-> dataset_name,
                filters |-> filters,
                result |-> query_by_criteria_result(data, metadata, indexes,
                                                    dataset_name, filters)]

(***************************************************************************)
(* query_sql                                                               *)
(***************************************************************************)
\* The query texts of the model: SELECT * FROM t, SELECT c FROM t,
\* DROP TABLE t, and a text that is not SQL.
SelectAll(t) == [kind |-> "select", table |-> t, column |-> <<"*">>]
SelectColumn(t, c) == [kind |-> "select", table |-> t, column |-> c]
DropTable(t) == [kind |-> "drop", table |-> t, column |-> <<>>]
Malformed == [kind |-> "malformed", table |-> <<>>, column |-> <<>>]

\* SELECT column FROM the table
Project(table, column) ==
    IF column = <<"*">> THEN table
    ELSE DataFrame(<<column>>,
           [r \in DOMAIN table.rows |-> <<table.rows[r][ColPos(table, column)]>>])

\* pd.read_sql_query(query, conn): the statement is executed, then the frame
\* is built from cursor.description, which is None after a statement that
\* returns no rows (TypeError, after the statement has taken effect).
read_sql_query(tbls, open, query) ==
    IF ~open THEN [status |-> "ProgrammingError", frame |-> EmptyFrame, tables |-> tbls]
    ELSE IF query.kind = "malformed" \/ query.table \notin DOMAIN tbls
    THEN [status |-> "OperationalError", frame |-> EmptyFrame, tables |-> tbls]
    ELSE IF query.kind = "drop"
    THEN [status |-> "TypeError", frame |-> EmptyFrame,
          tables |-> Remove(tbls, query.table)]
    ELSE IF query.column # <<"*">>
            /\ query.column \notin Range(tbls[query.table].columns)
    THEN [status |-> "OperationalError", frame |-> EmptyFrame, tables |-> tbls]
    ELSE [status |-> "ok", frame |-> Project(tbls[query.table], query.column),
          tables |-> tbls]

\* A query_sql without the try/except: the backend's exception propagates.
query_sql_propagates(read) ==
    IF read.status = "ok"
    THEN Returned(RowIds(read.frame), read.frame)
    ELSE Raised(read.status)

\* try: return read_sql_query(...)  except Exception: return pd.DataFrame()
query_sql_result(read) ==
    IF read.status = "ok"
    THEN Returned(RowIds(read.frame), read.frame)
    ELSE Returned(<<>>, EmptyFrame)

query_sql(query) ==
    LET read == read_sql_query(tables, conn_open, query)
    IN  /\ tables' = read.tables
        /\ UNCHANGED <<data, metadata, indexes, conn_open, releases>>
        /\ last' = [op |-> "query_sql", query |-> query,
                    result |-> query_sql_result(read)]

(***************************************************************************)
(* get_dataset_info                                                        *)
(***************************************************************************)
\* The lists of indexed columns are kept as sets of column names.
get_dataset_info_result(dat, meta, idxs, dataset_name) ==
    IF dataset_name \notin DOMAIN dat
    THEN [status |-> "ok", info |-> EmptyDict]
    ELSE
      LET df == dat[dataset_name]
          index_store == Get(idxs, dataset_name, EmptyDict)
      IN  [status |-> "ok",
           info |-> [rows |-> Len(df.rows),
                     columns |-> df.columns,
                     column_types |-> Get(meta, dataset_name, EmptyDict),
                     indexes |->
                       [date_columns |->
                          DOMAIN Get(index_store, "date_columns", EmptyDict),
                        numeric_columns |->
                          DOMAIN Get(index_store, "numeric_columns", EmptyDict),
                        category_columns |->
                          DOMAIN Get(index_store, "category_columns", EmptyDict)]]]

get_dataset_info(dataset_name) ==
    /\ UNCHANGED store
    /\ last' = [op |-> "get_dataset_info", name |-> dataset_name,
                result |-> get_dataset_info_result(data, metadata, indexes,
                                                   dataset_name)]

(***************************************************************************)
(* aggregate_data                                                          *)
(***************************************************************************)
\* float(x): a float is an integer number of 1/100000, so that the mean of a
\* few two-place decimals is exact; binary rounding is not modelled.
float(c) == FloatV(c.n * 1000)

\* The cells of df[col] as aggregate_data leaves them: the Decimals of a
\* measure whose first non-null value is a Decimal are turned into floats.
FirstIsDecimal(df, col) ==
    LET valid == DropNa(df, col) IN valid # <<>> /\ isdecimal(valid[1].val)

AggCells(df, measures, col) ==
    LET cells == Column(df, col)
    IN  IF col \in Range(measures) /\ FirstIsDecimal(df, col)
        THEN [i \in DOMAIN cells |-> IF isdecimal(cells[i]) THEN float(cells[i])
                                     ELSE cells[i]]
        ELSE cells

\* select_dtypes(include=number): a column of floats (None read as NaN); a
\* column that still holds a Decimal, a str or a date has dtype object.
IsNumeric(cells) ==
    /\ \A i \in DOMAIN cells : cells[i].k \in {"float", "int", "null"}
    /\ \E i \in DOMAIN cells : cells[i].k \in {"float", "int"}

isstr(c) == c.k = "str"

\* The order groupby sorts one key column by: values of one kind by value,
\* and in a mixed column everything that is not a str before every str.
KeyLess(a, b) ==
    IF isstr(a) = isstr(b) THEN CellLess(a, b) ELSE ~isstr(a)

RECURSIVE TupleLess(_, _)
TupleLess(a, b) ==
    IF a = <<>> THEN FALSE
    ELSE IF Head(a) # Head(b) THEN KeyLess(Head(a), Head(b))
    ELSE TupleLess(Tail(a), Tail(b))

RECURSIVE SortedKeys(_)
SortedKeys(S) ==
    IF S = {} THEN <<>>
    ELSE LET m == CHOOSE x \in S : \A y \in S \ {x} : TupleLess(x, y)
         IN  <<m>> \o SortedKeys(S \ {m})

RECURSIVE SumN(_)
SumN(seq) == IF seq = <<>> THEN 0 ELSE Head(seq).n + SumN(Tail(seq))

Suffix(col, word) == col \o <<"_">> \o word

\* '_'.join(col) for the three statistics of one measure
StatColumns(col) ==
    <<Suffix(col, <<"s", "u", "m">>), Suffix(col, <<"m", "e", "a", "n">>),
      Suffix(col, <<"c", "o", "u", "n", "t">>)>>

\* sum, mean and count of the values of one group, NaN skipped
Stats(values) ==
    LET valid == SelectSeq(values, notna)
    IN  <<FloatV(SumN(valid)),
          IF valid = <<>> THEN Null ELSE FloatV(SumN(valid) \div Len(valid)),
          IntV(Len(valid))>>

RECURSIVE Flatten(_)
Flatten(seqs) == IF seqs = <<>> THEN <<>> ELSE Head(seqs) \o Flatten(Tail(seqs))

\* agg_df.groupby(group_by).agg({m: ['sum', 'mean', 'count']}).reset_index():
\* rows with a null key are dropped, the groups come in key order.
GroupAgg(df, group_by, measures, agg_cols) ==
    LET key_cols == [i \in DOMAIN group_by |-> Column(df, group_by[i])]
        val_cols == [i \in DOMAIN agg_cols |-> AggCells(df, measures, agg_cols[i])]
        key_of == [r \in DOMAIN df.rows |-> [i \in DOMAIN group_by |-> key_cols[i][r]]]
        keyed == {r \in DOMAIN df.rows :
                     \A i \in DOMAIN group_by : notna(key_of[r][i])}
        keys == SortedKeys({key_of[r] : r \in keyed})
        row_numbers == [r \in DOMAIN df.rows |-> r]
        Members(key) ==
            SelectSeq(row_numbers, LAMBDA r : r \in keyed /\ key_of[r] = key)
        GroupStats(key) ==
            LET mem == Members(key)
            IN  Flatten([i \in DOMAIN agg_cols |->
                           Stats([j \in DOMAIN mem |-> val_cols[i][mem[j]]])])
    IN  DataFrame(
          group_by \o Flatten([i \in DOMAIN agg_cols |-> StatColumns(agg_cols[i])]),
          [g \in DOMAIN keys |-> keys[g] \o GroupStats(keys[g])])

MissingColumns(missing_group, missing_meas) ==
    [status |-> "MissingColumn", index |-> <<>>, frame |-> EmptyFrame,
     missing_group |-> missing_group, missing_meas |-> missing_meas]

\* A validation that stops at the first name that is not a column.
FirstMissing(df, names) ==
    LET absent == SelectSeq(names, LAMBDA c : c \notin Range(df.columns))
    IN  IF absent = <<>> THEN <<>> ELSE <<Head(absent)>>

\* missing_group / missing_meas: the names that are not columns, in order
Missing(df, names) == SelectSeq(names, LAMBDA c : c \notin Range(df.columns))

\* aggregate_data once the dataset and the columns are known to exist
Aggregate(df, group_by, measures) ==
    LET agg_columns == group_by \o measures
        numeric_columns ==
            SelectSeq(agg_columns,
                      LAMBDA c : IsNumeric(AggCells(df, measures, c)))
        numeric_empty == numeric_columns = <<>> \/ df.rows = <<>>
        measure_cols_for_agg ==
            SelectSeq(measures, LAMBDA c : c \in Range(numeric_columns))
    IN  IF numeric_empty \/ Len(numeric_columns) = Len(group_by)
        THEN Returned(<<>>, EmptyFrame)
        ELSE IF measure_cols_for_agg = <<>>
        THEN Returned(<<>>, EmptyFrame)
        ELSE IF group_by = <<>>
        THEN Returned(<<>>, EmptyFrame)
        ELSE LET result == GroupAgg(df, group_by, measures, measure_cols_for_agg)
             IN  Returned(RowIds(result), result)

aggregate_data_result(dat, dataset_name, group_by, measures) ==
    IF dataset_name \notin DOMAIN dat THEN Raised("DatasetNotFound")
    ELSE
      LET df == dat[dataset_name]
          missing_group == Missing(df, group_by)
          missing_meas == Missing(df, measures)
      IN  IF missing_group # <<>> \/ missing_meas # <<>>
          THEN MissingColumns(missing_group, missing_meas)
          ELSE Aggregate(df, group_by, measures)

aggregate_data(dataset_name, group_by, measures) ==
    /\ UNCHANGED store
    /\ last' = [op |-> "aggregate_data", name |-> dataset_name,
                group_by |-> group_by, measures |-> measures,
                result |-> aggregate_data_result(data, dataset_name,
                                                 group_by, measures)]

(***************************************************************************)
(* Text of raw values (src/core/format_parser.py, type_detector.py)        *)
(*                                                                         *)
(* The texts of the model are made of ASCII letters, digits, the space     *)
(* and punctuation: the space is their only whitespace, they hold no line  *)
(* break and no digit outside 0-9.                                         *)
(***************************************************************************)
UpperChars ==
    <<"A", "B", "C", "D", "E", "F", "G", "H", "I", "J", "K", "L", "M",
      "N", "O", "P", "Q", "R", "S", "T", "U", "V", "W", "X", "Y", "Z">>

LowerChars ==
    <<"a", "b", "c", "d", "e", "f", "g", "h", "i", "j", "k", "l", "m",
      "n", "o", "p", "q", "r", "s", "t", "u", "v", "w", "x", "y", "z">>

\* str.lower()
lower(s) ==
    [i \in DOMAIN s |->
       IF s[i] \in Range(UpperChars)
       THEN LowerChars[CHOOSE j \in 1..26 : UpperChars[j] = s[i]]
       ELSE s[i]]

\* \d, [A-Za-z] and \s for one character
IsDigit(ch) == ch \in Range(DigitChars)
IsLetter(ch) == ch \in Range(UpperChars) \cup Range(LowerChars)
IsSpace(ch) == ch = " "

\* \d* over the whole text; str.isdigit() asks for one digit at least
AllDigits(s) == \A i \in DOMAIN s : IsDigit(s[i])
isdigit(s) == s # <<>> /\ AllDigits(s)

\* str.strip()
RECURSIVE lstrip_space(_)
lstrip_space(s) ==
    IF s # <<>> /\ IsSpace(Head(s)) THEN lstrip_space(Tail(s)) ELSE s
RECURSIVE rstrip_space(_)
rstrip_space(s) ==
    IF s # <<>> /\ IsSpace(s[Len(s)])
    THEN rstrip_space(SubSeq(s, 1, Len(s) - 1)) ELSE s
strip_space(s) == rstrip_space(lstrip_space(s))

\* int(s) of a text of digits
RECURSIVE int(_)
int(s) ==
    IF s = <<>> THEN 0
    ELSE 10 * int(SubSeq(s, 1, Len(s) - 1))
         + ((CHOOSE d \in 1..10 : DigitChars[d] = s[Len(s)]) - 1)

\* s.replace(ch, '') and s.replace(ch, by)
Without(s, ch) == SelectSeq(s, LAMBDA c : c # ch)
Replace(s, ch, by) == [i \in DOMAIN s |-> IF s[i] = ch THEN by ELSE s[i]]

\* s[:n]
Prefix(s, n) == SubSeq(s, 1, IF n < Len(s) THEN n ELSE Len(s))

\* the position of the first ch in s, 0 if there is none
Find(s, ch) ==
    IF ch \in Range(s) THEN CHOOSE i \in DOMAIN s :
                               s[i] = ch /\ \A j \in 1..(i - 1) : s[j] # ch
    ELSE 0

(***************************************************************************)
(* decimal.Decimal                                                         *)
(*                                                                         *)
(* A finite Decimal is n * 10^e with n not a multiple of 10 (Decimal       *)
(* compares by value: Decimal('1500000.0') == 1500000); a NaN, a           *)
(* signalling NaN and an infinity keep their sign in n.  None is the       *)
(* value of a call that returns nothing.                                   *)
(***************************************************************************)
DecimalValue(kind, n, e) == [kind |-> kind, n |-> n, e |-> e]

NoneValue == DecimalValue("None", 0, 0)

RECURSIVE Finite(_, _)
Finite(n, e) ==
    IF n = 0 THEN DecimalValue("finite", 0, 0)
    ELSE IF n % 10 = 0 THEN Finite(n \div 10, e + 1)
    ELSE DecimalValue("finite", n, e)

\* digits [. digits] with a digit somewhere: the number it writes
IsNumeral(s) ==
    LET rest == Without(s, ".")
    IN  /\ rest # <<>>
        /\ AllDigits(rest)
        /\ Len(s) - Len(rest) <= 1

NumeralValue(s) ==
    LET dot == Find(s, ".")
    IN  IF dot = 0 THEN Finite(int(s), 0)
        ELSE Finite(int(Without(s, ".")), 0 - (Len(s) - dot))

\* [sign] digits of an exponent
IsSignedDigits(t) ==
    LET body == IF t # <<>> /\ Head(t) \in {"+", "-"} THEN Tail(t) ELSE t
    IN  isdigit(body)

SignedDigitsValue(t) ==
    IF Head(t) = "-" THEN 0 - int(Tail(t))
    ELSE IF Head(t) = "+" THEN int(Tail(t)) ELSE int(t)

\* Decimal(text): surrounding whitespace and underscores are dropped, then
\* come an optional sign and a numeral with an optional exponent, 'inf',
\* 'infinity', 'nan' or 'snan' (the last two with optional digits), in any
\* case; anything else is InvalidOperation.
Decimal(text) ==
    LET t == lower(Without(strip_space(text), "_"))
        signed == t # <<>> /\ Head(t) \in {"+", "-"}
        sign == IF signed /\ Head(t) = "-" THEN 0 - 1 ELSE 1
        body == IF signed THEN Tail(t) ELSE t
        StartsWith(word) ==
            Len(body) >= Len(word) /\ SubSeq(body, 1, Len(word)) = word
        After(word) == SubSeq(body, Len(word) + 1, Len(body))
        at == Find(body, "e")
        mantissa == SubSeq(body, 1, at - 1)
        exponent == SubSeq(body, at + 1, Len(body))
    IN  IF IsNumeral(body)
        THEN LET v == NumeralValue(body) IN Finite(sign * v.n, v.e)
        ELSE IF at > 0 /\ IsNumeral(mantissa) /\ IsSignedDigits(exponent)
        THEN LET v == NumeralValue(mantissa)
             IN  Finite(sign * v.n, v.e + SignedDigitsValue(exponent))
        ELSE IF body \in {<<"i", "n", "f">>,
                          <<"i", "n", "f", "i", "n", "i", "t", "y">>}
        THEN DecimalValue("Infinity", sign, 0)
        ELSE IF StartsWith(<<"n", "a", "n">>) /\ AllDigits(After(<<"n", "a", "n">>))
        THEN DecimalValue("NaN", sign, 0)
        ELSE IF StartsWith(<<"s", "n", "a", "n">>)
                /\ AllDigits(After(<<"s", "n", "a", "n">>))
        THEN DecimalValue("sNaN", sign, 0)
        ELSE DecimalValue("InvalidOperation", 0, 0)

\* -d: a NaN is returned as it is, a signalling NaN raises InvalidOperation
Negate(d) ==
    CASE d.kind = "finite" -> Finite(0 - d.n, d.e)
      [] d.kind = "Infinity" -> DecimalValue("Infinity", 0 - d.n, 0)
      [] d.kind = "NaN" -> d
      [] OTHER -> DecimalValue("InvalidOperation", 0, 0)

(***************************************************************************)
(* FormatParser.parse_amount                                               *)
(***************************************************************************)
\* [€$₹£¥]
CurrencySymbols == {"$", "€", "₹", "£", "¥"}

\* [^\d\.\-+] is removed
IsNumberChar(ch) == IsDigit(ch) \/ ch \in {".", "-", "+"}
KeepNumberChars(s) == SelectSeq(s, IsNumberChar)

\* Decimal(cleaned), None on InvalidOperation
DecimalOrNone(cleaned) ==
    LET d == Decimal(cleaned)
    IN  IF d.kind = "InvalidOperation" THEN NoneValue ELSE d

\* As _clean_and_parse_number, the commas-only branch tested first.
_clean_and_parse_number_commas_first(text) ==
    LET s == strip_space(text)
        cleaned == KeepNumberChars(s)
    IN  IF s = <<>> THEN NoneValue
        ELSE IF "," \in Range(s)
        THEN DecimalOrNone(Without(s, ","))
        ELSE DecimalOrNone(cleaned)

\* The separators are resolved on the text s itself: with a '.' and a ','
\* the dots go and the commas become dots, and what is not a digit, a dot or
\* a sign is removed; with commas only the commas go and the rest of s is
\* kept as it is; otherwise s without what is not a digit, dot or sign.
_clean_and_parse_number(text) ==
    LET s == strip_space(text)
        cleaned == KeepNumberChars(s)
    IN  IF s = <<>> THEN NoneValue
        ELSE IF "." \in Range(cleaned) /\ "," \in Range(s)
        THEN DecimalOrNone(KeepNumberChars(Replace(Without(s, "."), ",", ".")))
        ELSE IF "," \in Range(s)
        THEN DecimalOrNone(Without(s, ","))
        ELSE DecimalOrNone(cleaned)

\* ^\((.*)\)$ and ^(.*)-$, and the group they capture
MatchParentheses(s) == Len(s) >= 2 /\ s[1] = "(" /\ s[Len(s)] = ")"
MatchTrailingMinus(s) == s # <<>> /\ s[Len(s)] = "-"
ButLast(s) == SubSeq(s, 1, Len(s) - 1)

\* [+-]?\d*\.?\d+
IsSignedNumeral(t) ==
    LET body == IF t # <<>> /\ Head(t) \in {"+", "-"} THEN Tail(t) ELSE t
    IN  /\ body # <<>>
        /\ IsDigit(body[Len(body)])
        /\ AllDigits(Without(body, "."))
        /\ Len(body) - Len(Without(body, ".")) <= 1

\* ^([+-]?\d*\.?\d+)\s*([kmb])$, case ignored
MatchAbbreviated(s) ==
    /\ s # <<>>
    /\ lower(<<s[Len(s)]>>)[1] \in {"k", "m", "b"}
    /\ IsSignedNumeral(rstrip_space(ButLast(s)))

Multiplier(suffix) ==
    CASE suffix = "k" -> 3 [] suffix = "m" -> 6 [] OTHER -> 9

\* Decimal(str(float(group 1) * multiplier)): the product is taken as exact,
\* the rounding of binary floats is not modelled.
AbbreviatedValue(s) ==
    LET num == Decimal(rstrip_space(ButLast(s)))
    IN  Finite(num.n, num.e + Multiplier(lower(<<s[Len(s)]>>)[1]))

\* ^[€$₹£¥](.+)$ and ^(.+)[€$₹£¥]$
MatchCurrencyPrefix(s) == Len(s) >= 2 /\ s[1] \in CurrencySymbols
MatchCurrencySuffix(s) == Len(s) >= 2 /\ s[Len(s)] \in CurrencySymbols

AmountReturned(d) == [status |-> "ok", value |-> d]
AmountRaised(status) == [status |-> status, value |-> NoneValue]

\* return -result if result is not None else None
NegatedOrNone(result) ==
    IF result = NoneValue THEN AmountReturned(NoneValue)
    ELSE IF Negate(result).kind = "InvalidOperation"
    THEN AmountRaised("InvalidOperation")
    ELSE AmountReturned(Negate(result))

parse_amount_result(value) ==
    IF ~notna(value) THEN AmountReturned(NoneValue)
    ELSE IF value.k \in {"int", "float"}
    THEN AmountReturned(DecimalOrNone(str(value)))
    ELSE
      LET original == strip_space(str(value))
          s == lower(original)
      IN  IF MatchParentheses(s)
          THEN NegatedOrNone(_clean_and_parse_number(SubSeq(s, 2, Len(s) - 1)))
          ELSE IF MatchTrailingMinus(s)
          THEN NegatedOrNone(_clean_and_parse_number(ButLast(s)))
          ELSE IF MatchAbbreviated(s)
          THEN AmountReturned(AbbreviatedValue(s))
          ELSE IF MatchCurrencyPrefix(original)
          THEN AmountReturned(_clean_and_parse_number(Tail(original)))
          ELSE IF MatchCurrencySuffix(original)
          THEN AmountReturned(_clean_and_parse_number(ButLast(original)))
          ELSE AmountReturned(_clean_and_parse_number(s))

(***************************************************************************)
(* datetime.date                                                           *)
(***************************************************************************)
IsLeap(year) == year % 4 = 0 /\ (year % 100 # 0 \/ year % 400 = 0)

DaysInMonth(year, month) ==
    IF month = 2 THEN (IF IsLeap(year) THEN 29 ELSE 28)
    ELSE IF month \in {4, 6, 9, 11} THEN 30 ELSE 31

\* date(year, month, day) raises ValueError unless this holds
ValidDate(year, month, day) ==
    /\ year \in 1..9999
    /\ month \in 1..12
    /\ day \in 1..DaysInMonth(year, month)

\* date(year, month, day), None where the constructor raises ValueError and
\* the caller passes on
DateOrNone(year, month, day) ==
    IF ValidDate(year, month, day)
    THEN DateV(year * 10000 + month * 100 + day) ELSE Null

\* the month and the day of the day-of-year n (0-based) of a year
RECURSIVE MonthDay(_, _, _)
MonthDay(year, month, n) ==
    IF n < DaysInMonth(year, month) THEN <<month, n + 1>>
    ELSE MonthDay(year, month + 1, n - DaysInMonth(year, month))

\* date.fromordinal(ordinal): day 1 is 0001-01-01
fromordinal(ordinal) ==
    LET n0 == ordinal - 1
        n400 == n0 \div 146097
        r400 == n0 % 146097
        n100 == r400 \div 36524
        r100 == r400 % 36524
        n4 == r100 \div 1461
        r4 == r100 % 1461
        n1 == r4 \div 365
        r1 == r4 % 365
        year == n400 * 400 + n100 * 100 + n4 * 4 + n1 + 1
    IN  IF n1 = 4 \/ n100 = 4
        THEN [year |-> year - 1, month |-> 12, day |-> 31]
        ELSE LET md == MonthDay(year, 1, r1)
             IN  [year |-> year, month |-> md[1], day |-> md[2]]

\* datetime(1899, 12, 30).toordinal(), and the largest Excel serial
ExcelEpochOrdinal == 693594
MaxExcelSerial == 2958465

\* datetime(1899, 12, 30) + timedelta(days=serial)
ExcelDate(serial) == fromordinal(ExcelEpochOrdinal + serial)

(***************************************************************************)
(* FormatParser.parse_date                                                 *)
(***************************************************************************)
\* the fields of s between the separators sep
RECURSIVE Fields(_, _)
Fields(s, sep) ==
    LET at == Find(s, sep)
    IN  IF at = 0 THEN <<s>>
        ELSE <<SubSeq(s, 1, at - 1)>> \o Fields(SubSeq(s, at + 1, Len(s)), sep)

\* \d{lo,hi} and [A-Za-z]{lo,hi} over a whole field
DigitField(f, lo, hi) == Len(f) \in lo..hi /\ AllDigits(f)
LetterField(f, lo, hi) == Len(f) \in lo..hi /\ \A i \in DOMAIN f : IsLetter(f[i])

\* self.month_map.get(mon): 0 stands for None
MonthNames ==
    <<<<"j", "a", "n">>, <<"f", "e", "b">>, <<"m", "a", "r">>, <<"a", "p", "r">>,
      <<"m", "a", "y">>, <<"j", "u", "n">>, <<"j", "u", "l">>, <<"a", "u", "g">>,
      <<"s", "e", "p">>, <<"o", "c", "t">>, <<"n", "o", "v">>, <<"d", "e", "c">>>>

month_map(mon) ==
    IF mon \in Range(MonthNames)
    THEN CHOOSE m \in 1..12 : MonthNames[m] = mon ELSE 0

\* the longest run of digits that ends s
RECURSIVE TrailingDigits(_)
TrailingDigits(s) ==
    IF s # <<>> /\ IsDigit(s[Len(s)])
    THEN TrailingDigits(ButLast(s)) \o <<s[Len(s)]>> ELSE <<>>

\* ^(Q[1-4])\s*[-\s]?\s*(\d{2,4})$, case ignored: after Qn come whitespace
\* with one '-' at most, then two to four digits
MatchQuarter(s) ==
    /\ Len(s) >= 4
    /\ s[1] \in {"Q", "q"}
    /\ s[2] \in {"1", "2", "3", "4"}
    /\ LET rest == SubSeq(s, 3, Len(s))
           year == TrailingDigits(rest)
           middle == SubSeq(rest, 1, Len(rest) - Len(year))
       IN  /\ Len(year) \in 2..4
           /\ \A i \in DOMAIN middle : middle[i] \in {" ", "-"}
           /\ Len(middle) - Len(Without(middle, "-")) <= 1

\* ^Quarter ([1-4]) (\d{4})$, case ignored
MatchQuarterFull(s) ==
    /\ Len(s) = 14
    /\ lower(SubSeq(s, 1, 8)) = <<"q", "u", "a", "r", "t", "e", "r", " ">>
    /\ s[9] \in {"1", "2", "3", "4"}
    /\ s[10] = " "
    /\ AllDigits(SubSeq(s, 11, 14))

\* if len(str(year)) == 2: year += 2000 if year < 50 else 1900
PivotYear(year) ==
    IF year \in 10..99 THEN (IF year < 50 THEN year + 2000 ELSE year + 1900)
    ELSE year

DateReturned(d) == [status |-> "ok", value |-> d]

\* The rules for a text, in their order; a rule whose date is impossible
\* passes on to the next one.
RECURSIVE ParseDateText(_, _)
ParseDateText(s, rule) ==
    LET slash == Fields(s, "/")
        dash == Fields(s, "-")
        space == Fields(s, " ")
        found ==
          CASE rule = 1 ->
                 \* month, day, year = groups 1, 2, 3; both branches of the
                 \* day > 12 test return date(year, month, day)
                 IF Len(slash) = 3 /\ DigitField(slash[1], 1, 2)
                    /\ DigitField(slash[2], 1, 2) /\ DigitField(slash[3], 4, 4)
                 THEN DateOrNone(int(slash[3]), int(slash[1]), int(slash[2]))
                 ELSE Null
            [] rule = 2 ->
                 IF Len(dash) = 3 /\ DigitField(dash[1], 4, 4)
                    /\ DigitField(dash[2], 1, 2) /\ DigitField(dash[3], 1, 2)
                 THEN DateOrNone(int(dash[1]), int(dash[2]), int(dash[3]))
                 ELSE Null
            [] rule = 3 ->
                 IF Len(dash) = 3 /\ DigitField(dash[1], 1, 2)
                    /\ LetterField(dash[2], 3, 3) /\ DigitField(dash[3], 4, 4)
                 THEN DateOrNone(int(dash[3]), month_map(lower(dash[2])),
                                 int(dash[1]))
                 ELSE Null
            [] rule = 4 ->
                 IF Len(space) = 2 /\ LetterField(space[1], 1, Len(s))
                    /\ DigitField(space[2], 4, 4)
                 THEN DateOrNone(int(space[2]),
                                 month_map(lower(Prefix(space[1], 3))), 1)
                 ELSE Null
            [] rule = 5 ->
                 IF MatchQuarter(s)
                 THEN DateOrNone(PivotYear(int(TrailingDigits(Tail(Tail(s))))),
                                 (int(<<s[2]>>) - 1) * 3 + 1, 1)
                 ELSE Null
            [] OTHER ->
                 IF MatchQuarterFull(s)
                 THEN DateOrNone(int(SubSeq(s, 11, 14)),
                                 (int(<<s[9]>>) - 1) * 3 + 1, 1)
                 ELSE Null
    IN  IF found # Null THEN found
        ELSE IF rule = 6 THEN Null
        ELSE ParseDateText(s, rule + 1)

parse_date_result(value) ==
    IF ~notna(value) THEN DateReturned(Null)
    ELSE IF value.k = "int" /\ value.n \in 1..MaxExcelSerial
    THEN LET dt == ExcelDate(value.n)
         IN  DateReturned(DateV(dt.year * 10000 + dt.month * 100 + dt.day))
    ELSE DateReturned(ParseDateText(strip_space(str(value)), 1))

(***************************************************************************)
(* DataTypeDetector.detect_date_format                                     *)
(***************************************************************************)
\* pd.Timedelta counts nanoseconds in 64 bits: more days than this overflow
MaxTimedeltaDays == 106751

\* the years the detector accepts for an Excel serial
MinSerialYear == 1900
MaxSerialYear == 9999

DateMatch(format) == [is_match |-> TRUE, format |-> format]
NoMatch == [is_match |-> FALSE, format |-> "None"]

\* int(value) of a run of digits is compared with the serial range: past
\* seven significant digits it is above it
SerialInRange(value) ==
    LET RECURSIVE Significant(_)
        Significant(t) ==
            IF t # <<>> /\ Head(t) = "0" THEN Significant(Tail(t)) ELSE t
    IN  /\ Len(Significant(value)) <= 7
        /\ int(value) \in 1..MaxExcelSerial

\* value.isdigit() and 1 <= serial <= 2958465, then
\* base + pd.Timedelta(days=serial) with a year in 1900..9999; an overflow of
\* the Timedelta is caught and the value goes on to the patterns
MatchExcelSerial(value) ==
    /\ isdigit(value)
    /\ SerialInRange(value)
    /\ int(value) <= MaxTimedeltaDays
    /\ ExcelDate(int(value)).year \in MinSerialYear..MaxSerialYear

\* the full month names of pattern 5 and of %B
FullMonthNames ==
    <<<<"j", "a", "n", "u", "a", "r", "y">>,
      <<"f", "e", "b", "r", "u", "a", "r", "y">>,
      <<"m", "a", "r", "c", "h">>,
      <<"a", "p", "r", "i", "l">>,
      <<"m", "a", "y">>,
      <<"j", "u", "n", "e">>,
      <<"j", "u", "l", "y">>,
      <<"a", "u", "g", "u", "s", "t">>,
      <<"s", "e", "p", "t", "e", "m", "b", "e", "r">>,
      <<"o", "c", "t", "o", "b", "e", "r">>,
      <<"n", "o", "v", "e", "m", "b", "e", "r">>,
      <<"d", "e", "c", "e", "m", "b", "e", "r">>>>

\* ^Q[1-4] ?[-\s]?[0-9]{2,4}$, case ignored
MatchQuarterPattern(s) ==
    /\ Len(s) >= 4
    /\ s[1] \in {"Q", "q"}
    /\ s[2] \in {"1", "2", "3", "4"}
    /\ LET rest == SubSeq(s, 3, Len(s))
           year == TrailingDigits(rest)
           middle == SubSeq(rest, 1, Len(rest) - Len(year))
       IN  /\ Len(year) \in 2..4
           /\ middle \in {<<>>, <<" ">>, <<"-">>, <<" ", "-">>, <<" ", " ">>}

\* self.date_patterns, in their order
MatchDatePattern(s, pattern) ==
    LET slash == Fields(s, "/")
        dash == Fields(s, "-")
        space == Fields(s, " ")
    IN  CASE pattern = 1 ->
               Len(slash) = 3 /\ DigitField(slash[1], 1, 2)
               /\ DigitField(slash[2], 1, 2) /\ DigitField(slash[3], 4, 4)
          [] pattern = 2 ->
               Len(dash) = 3 /\ DigitField(dash[1], 4, 4)
               /\ DigitField(dash[2], 2, 2) /\ DigitField(dash[3], 2, 2)
          [] pattern = 3 ->
               Len(dash) = 3 /\ DigitField(dash[1], 1, 2)
               /\ LetterField(dash[2], 3, 3) /\ DigitField(dash[3], 4, 4)
          [] pattern = 4 ->
               Len(s) = 8 /\ lower(SubSeq(s, 1, 3)) \in Range(MonthNames)
               /\ s[4] \in {" ", "-"} /\ AllDigits(SubSeq(s, 5, 8))
          [] pattern = 5 ->
               Len(space) = 2 /\ lower(space[1]) \in Range(FullMonthNames)
               /\ DigitField(space[2], 4, 4)
          [] pattern = 6 -> MatchQuarterPattern(s)
          [] OTHER -> MatchQuarterFull(s)

\* strptime directives over a whole field: %m, %d (a space may stand for
\* the leading zero) and %Y
StrpMonth(f) ==
    \/ Len(f) = 1 /\ IsDigit(f[1]) /\ f[1] # "0"
    \/ Len(f) = 2 /\ AllDigits(f) /\ int(f) \in 1..12

StrpDay(f) ==
    \/ Len(f) = 1 /\ IsDigit(f[1]) /\ f[1] # "0"
    \/ Len(f) = 2 /\ AllDigits(f) /\ int(f) \in 1..31
    \/ Len(f) = 2 /\ f[1] = " " /\ IsDigit(f[2]) /\ f[2] # "0"

StrpYear(f) == DigitField(f, 4, 4)

\* %b %Y and %B %Y: a month name, whitespace, four digits, case ignored
StrpMonthYear(s, names) ==
    /\ Len(s) >= 5
    /\ AllDigits(SubSeq(s, Len(s) - 3, Len(s)))
    /\ LET before == SubSeq(s, 1, Len(s) - 4)
       IN  /\ IsSpace(before[Len(before)])
           /\ lower(rstrip_space(before)) \in Range(names)
           /\ int(SubSeq(s, Len(s) - 3, Len(s))) >= 1

\* datetime.strptime(value, fmt) returns: the text has the shape of the
\* format and names a date that exists
Strptime(s, fmt) ==
    LET slash == Fields(s, "/")
        dash == Fields(s, "-")
        Day(f) == int(strip_space(f))
    IN  CASE fmt = 1 ->
               Len(slash) = 3 /\ StrpMonth(slash[1]) /\ StrpDay(slash[2])
               /\ StrpYear(slash[3])
               /\ ValidDate(int(slash[3]), int(slash[1]), Day(slash[2]))
          [] fmt = 2 ->
               Len(slash) = 3 /\ StrpDay(slash[1]) /\ StrpMonth(slash[2])
               /\ StrpYear(slash[3])
               /\ ValidDate(int(slash[3]), int(slash[2]), Day(slash[1]))
          [] fmt = 3 ->
               Len(dash) = 3 /\ StrpYear(dash[1]) /\ StrpMonth(dash[2])
               /\ StrpDay(dash[3])
               /\ ValidDate(int(dash[1]), int(dash[2]), Day(dash[3]))
          [] fmt = 4 ->
               Len(dash) = 3 /\ StrpDay(dash[1])
               /\ lower(dash[2]) \in Range(MonthNames) /\ StrpYear(dash[3])
               /\ ValidDate(int(dash[3]), month_map(lower(dash[2])), Day(dash[1]))
          [] fmt = 5 -> StrpMonthYear(s, MonthNames)
          [] OTHER -> StrpMonthYear(s, FullMonthNames)

\* date_formats: the hint of each format
DateFormatHints ==
    <<"MM/DD/YYYY", "DD/MM/YYYY", "YYYY-MM-DD", "DD-MON-YYYY", "MON YYYY",
      "MONTH YYYY">>

detect_date_format_result(text) ==
    LET value == strip_space(text)
        formats == {f \in DOMAIN DateFormatHints : Strptime(value, f)}
    IN  IF MatchExcelSerial(value) THEN DateMatch("ExcelSerial")
        ELSE IF \E pattern \in 1..7 : MatchDatePattern(value, pattern)
        THEN DateMatch("PatternMatch")
        ELSE IF formats # {}
        THEN DateMatch(DateFormatHints[CHOOSE f \in formats :
                                         \A g \in formats : f <= g])
        ELSE NoMatch

(***************************************************************************)
(* DataTypeDetector.detect_number_format                                   *)
(***************************************************************************)
\* ^[^\d\-\+\.]+ and [^\d\-\+\.]+$ are removed
RECURSIVE lstrip_non_number(_)
lstrip_non_number(s) ==
    IF s # <<>> /\ ~IsNumberChar(Head(s)) THEN lstrip_non_number(Tail(s)) ELSE s

RECURSIVE rstrip_non_number(_)
rstrip_non_number(s) ==
    IF s # <<>> /\ ~IsNumberChar(s[Len(s)])
    THEN rstrip_non_number(ButLast(s)) ELSE s

\* [,\s] is removed
WithoutSeparators(s) == Without(Without(s, ","), " ")

\* [ \d,]+\.?\d*
IsCurrencyNumber(t) ==
    LET at == Find(t, ".")
        whole == IF at = 0 THEN t ELSE SubSeq(t, 1, at - 1)
        fraction == IF at = 0 THEN <<>> ELSE SubSeq(t, at + 1, Len(t))
    IN  /\ whole # <<>>
        /\ \A i \in DOMAIN whole : IsDigit(whole[i]) \/ whole[i] \in {" ", ","}
        /\ AllDigits(fraction)

\* ^[€$₹£¥]([ \d,]+\.?\d*)$|([ \d,]+\.?\d*)[€$₹£¥]$ and the group that matched
CurrencyNumber(value) ==
    IF value # <<>> /\ Head(value) \in CurrencySymbols
       /\ IsCurrencyNumber(Tail(value))
    THEN Tail(value)
    ELSE IF value # <<>> /\ value[Len(value)] \in CurrencySymbols
            /\ IsCurrencyNumber(ButLast(value))
    THEN ButLast(value)
    ELSE <<>>

CurrencyName(value) ==
    CASE "€" \in Range(value) -> "Currency-Euro"
      [] "$" \in Range(value) -> "Currency-USD"
      [] "₹" \in Range(value) -> "Currency-INR"
      [] "£" \in Range(value) -> "Currency-GBP"
      [] OTHER -> "Currency-JPY"

NumberMatch(format) == [is_match |-> TRUE, format |-> format]

detect_number_format_result(text) ==
    LET value == lower(strip_space(text))
        stripped == rstrip_non_number(lstrip_non_number(value))
        cleaned ==
            IF Head(value) = "(" /\ value[Len(value)] = ")"
            THEN <<"-">> \o KeepNumberChars(Without(Without(stripped, "("), ")"))
            ELSE IF value[Len(value)] = "-"
            THEN <<"-">> \o KeepNumberChars(ButLast(value))
            ELSE stripped
        num_str == WithoutSeparators(cleaned)
        num_part == WithoutSeparators(CurrencyNumber(value))
    IN  IF value = <<>> \/ stripped = <<>> THEN NoMatch
        ELSE IF MatchAbbreviated(num_str)
        THEN NumberMatch(CASE num_str[Len(num_str)] = "k" -> "Abbreviated-K"
                           [] num_str[Len(num_str)] = "m" -> "Abbreviated-M"
                           [] OTHER -> "Abbreviated-B")
        ELSE IF Decimal(num_str).kind # "InvalidOperation"
        THEN NumberMatch("Decimal")
        ELSE IF CurrencyNumber(value) # <<>>
                /\ Decimal(num_part).kind # "InvalidOperation"
        THEN NumberMatch(CurrencyName(value))
        ELSE NoMatch

(***************************************************************************)
(* DataTypeDetector.detect_column_type                                     *)
(***************************************************************************)
\* non_null.head(1000)
SampleSize == 1000

\* round(k / n, 3) in thousandths, a tie going to the even neighbour; the
\* quotient is taken as exact
Round3(k, n) ==
    LET q == (2000 * k + n) \div (2 * n)
    IN  IF (2000 * k) % (2 * n) = n /\ q % 2 = 1 THEN q - 1 ELSE q

\* score >= 0.7
AtOrAboveThreshold(k, n) == 10 * k >= 7 * n

\* score > 0.7 for score = k / n
AboveThreshold(k, n) == 10 * k > 7 * n

\* type(val) in (str, int, float, np.integer, np.floating)
IsPrimitive(val) == val.k \in {"str", "int", "float"}

ColumnType(type, confidence, format_hint) ==
    [type |-> type, confidence |-> confidence, format_hint |-> format_hint]

Max(a, b) == IF a >= b THEN a ELSE b

\* The column is a sequence of cells. Nulls are dropped, the first 1000 of
\* the rest are sampled; a sampled value counts as a date when its text
\* matches a date format, else as a number when it matches a number format;
\* a value that is no str, int or float is passed over. The confidence is
\* in thousandths.
detect_column_type_result(column) ==
    LET non_null == SelectSeq(column, notna)
        sample == Prefix(non_null, SampleSize)
        str_val(i) == strip_space(str(sample[i]))
        dates == {i \in DOMAIN sample :
                    IsPrimitive(sample[i])
                    /\ detect_date_format_result(str_val(i)).is_match}
        numbers == {i \in DOMAIN sample :
                      IsPrimitive(sample[i]) /\ i \notin dates
                      /\ detect_number_format_result(str_val(i)).is_match}
        date_matches == Cardinality(dates)
        number_matches == Cardinality(numbers)
        first == CHOOSE i \in dates \cup numbers :
                    \A j \in dates \cup numbers : i <= j
        format_hint ==
            IF dates \cup numbers = {} THEN "None"
            ELSE IF first \in dates
            THEN detect_date_format_result(str_val(first)).format
            ELSE detect_number_format_result(str_val(first)).format
    IN  IF non_null = <<>> THEN ColumnType("String", 1000, "empty_or_null")
        ELSE IF AboveThreshold(date_matches, Len(sample))
        THEN ColumnType("Date", Round3(date_matches, Len(sample)), format_hint)
        ELSE IF AboveThreshold(number_matches, Len(sample))
        THEN ColumnType("Number", Round3(number_matches, Len(sample)),
                        format_hint)
        ELSE ColumnType("String",
                        Round3(Len(sample) - Max(date_matches, number_matches),
                               Len(sample)), "None")

(***************************************************************************)
(* Inputs                                                                  *)
(***************************************************************************)
DateC == <<"D", "a", "t", "e">>
AmountC == <<"A", "m", "o", "u", "n", "t">>
CategoryC == <<"C", "a", "t">>
NoteC == <<"N", "o", "t", "e">>
NoteSpaceC == <<"N", "o", "t", "e", " ">>
AbsentC == <<"X">>

Revenue == Text(<<"R", "e", "v">>)
Expense == Text(<<"E", "x", "p">>)

Jan15 == DateV(20230115)
Feb20 == DateV(20230220)

StdColumns == <<DateC, AmountC, CategoryC>>

StdTypes ==
    <<ColType(DateC, "Date"), ColType(AmountC, "Number"),
      ColType(CategoryC, "String")>>

\* The rows frames are made of.  The first three are the sample of the
\* module's usage example; then a row with missing cells, a row whose text
\* cell reads like an amount, and a row whose amount is a text.
RowPool ==
    <<<<Jan15, Dec(123456), Revenue>>,
      <<Feb20, Dec(-250000), Expense>>,
      <<Jan15, Dec(99999), Revenue>>,
      <<Null, Null, Expense>>,
      <<Feb20, Dec(99999), Text(StrDecimal(99999))>>,
      <<Jan15, Text(<<"n", "-", "a">>), Null>>>>

Inp(df, column_types) == [df |-> df, column_types |-> column_types]

\* the usage example's dataset
Sample == Inp(DataFrame(StdColumns, SubSeq(RowPool, 1, 3)), StdTypes)

\* one row, the same columns
Single == Inp(DataFrame(StdColumns, <<RowPool[5]>>), StdTypes)

\* a Number column that holds a Decimal and a text: sort_values raises
Unorderable == Inp(DataFrame(StdColumns, <<RowPool[1], RowPool[6]>>), StdTypes)

\* two headers that differ by a trailing space: one sanitized column name
DupColumns ==
    Inp(DataFrame(<<NoteC, NoteSpaceC>>, <<<<Revenue, Expense>>>>),
        <<ColType(NoteC, "String"), ColType(NoteSpaceC, "String")>>)

Inputs == {Sample, Single, Unorderable, DupColumns}

\* Two dataset names that sanitize to the same table name, and a third one
\* for the store of a single dataset.
NameAB == <<"a", "b">>
NameA_B == <<"a", "-", "b">>
NameC == <<"c">>
Names == {NameAB, NameA_B}

TableNames == {_sanitize_table_name(n) : n \in Names}

FilterSets == {<<Filter(DateC, Jan15), Filter(CategoryC, Revenue)>>}

Queries ==
    {SelectAll(t) : t \in TableNames} \cup {DropTable(t) : t \in TableNames}
    \cup {Malformed, SelectColumn(NameAB, AmountC), SelectColumn(NameAB, AbsentC)}

Grouping(group_by, measures) == [group_by |-> group_by, measures |-> measures]

Groupings == {Grouping(<<DateC, CategoryC>>, <<AmountC>>)}

(***************************************************************************)
(* Specification                                                           *)
(***************************************************************************)
Step(names, inputs, filter_sets, queries, groupings) ==
    \/ \E name \in names, i \in inputs : add_dataset(name, i.df, i.column_types)
    \/ \E name \in names, filters \in filter_sets :
          query_by_criteria(name, filters)
    \/ \E query \in queries : query_sql(query)
    \/ \E name \in names : get_dataset_info(name)
    \/ \E name \in names, g \in groupings :
          aggregate_data(name, g.group_by, g.measures)
    \/ close

Next == Step(Names, Inputs, FilterSets, Queries, Groupings)

Spec == Init /\ [][Next]_vars

(***************************************************************************)
(* The read operations over one registered dataset                         *)
(***************************************************************************)
MaxRows == 2

\* every frame of at most MaxRows rows of the pool, under the standard columns
PoolFrames ==
    UNION {{DataFrame(StdColumns, [i \in 1..n |-> RowPool[pick[i]]]) :
              pick \in [1..n -> DOMAIN RowPool]} : n \in 0..MaxRows}

FilterValues == {Jan15, Feb20, Dec(99999), Revenue, Text(StrDecimal(99999))}

OneFilter == {<<Filter(c, v)>> : c \in Range(StdColumns), v \in FilterValues}

TwoFilters ==
    {<<Filter(DateC, v), Filter(CategoryC, w)>> : v, w \in FilterValues}
    \cup {<<Filter(CategoryC, v), Filter(AmountC, w)>> : v, w \in FilterValues}

PoolFilters ==
    {<<>>} \cup OneFilter \cup TwoFilters
    \cup {<<Filter(AbsentC, Revenue)>>,
          <<Filter(AbsentC, Revenue), Filter(DateC, Jan15)>>}

PoolGroupings ==
    {Grouping(g, m) :
       g \in {<<>>, <<CategoryC>>, <<DateC>>, <<DateC, CategoryC>>,
              <<AbsentC>>, <<CategoryC, AbsentC>>, <<AbsentC, NoteC>>},
       m \in {<<AmountC>>, <<AmountC, CategoryC>>, <<AbsentC>>,
              <<NoteC, AmountC, AbsentC>>}}

\* The store after construction and one add_dataset of a pool frame.
InitRegistered ==
    \E df \in PoolFrames :
       LET eff == add_dataset_effect(EmptyDict, EmptyDict, EmptyDict, EmptyDict,
                                     TRUE, NameC, df, StdTypes)
       IN  /\ data = eff.data
           /\ metadata = eff.metadata
           /\ indexes = eff.indexes
           /\ tables = eff.tables
           /\ conn_open = TRUE
           /\ releases = 0
           /\ last = AddDatasetCall(NameC, df, StdTypes, eff.status)

NextRead ==
    \/ \E filters \in PoolFilters : query_by_criteria(NameC, filters)
    \/ \E g \in PoolGroupings : aggregate_data(NameC, g.group_by, g.measures)
    \/ get_dataset_info(NameC)

SpecRead == InitRegistered /\ [][NextRead]_vars

(***************************************************************************)
(* Properties of the store (under Spec)                                    *)
(***************************************************************************)
IsCall(call, op) == call.op = op

\* what runQuery shows of the mirror table of dataset name
MirrorSeen(tbls, open, name) ==
    query_sql_result(read_sql_query(tbls, open, SelectAll(_sanitize_table_name(name))))

\* C1: a register call either replaces the rows, the column metadata, the
\* indexes and the mirror table of its name together, all four built from
\* the call's frame, or leaves all four as they were.
C1_RegisterAllOrNothing ==
    [][IsCall(last', "add_dataset") =>
         LET name == last'.name
             table_name == _sanitize_table_name(name)
         IN  \/ /\ data'[name] = last'.df
                /\ metadata'[name] = last'.column_types
                /\ name \in DOMAIN indexes'
                /\ indexes'[name] = _create_indexes(last'.df, last'.column_types)
                /\ table_name \in DOMAIN tables'
                /\ tables'[table_name] =
                     StoredFrame(MirrorFrame(last'.df, last'.column_types))
             \/ /\ data' = data
                /\ metadata' = metadata
                /\ indexes' = indexes
                /\ tables' = tables]_vars

\* C2: registering under one name leaves every dataset registered under
\* another name unchanged: its rows, its metadata, its indexes and its mirror
\* table as runQuery shows it.
C2_OtherDatasetsUnchanged ==
    [][IsCall(last', "add_dataset") =>
         \A other \in (DOMAIN data) \ {last'.name} :
            /\ data'[other] = data[other]
            /\ metadata'[other] = metadata[other]
            /\ (other \in DOMAIN indexes) = (other \in DOMAIN indexes')
            /\ other \in DOMAIN indexes => indexes'[other] = indexes[other]
            /\ MirrorSeen(tables', conn_open', other)
                 = MirrorSeen(tables, conn_open, other)]_vars

\* C4: filterEquals, aggregate and describe called with a name that is not
\* registered fail with DatasetNotFound and leave the store unchanged.
C4_UnregisteredNameFails ==
    [][/\ last'.op \in {"query_by_criteria", "aggregate_data", "get_dataset_info"}
       /\ last'.name \notin DOMAIN data
       => /\ last'.result.status = "DatasetNotFound"
          /\ store' = store]_vars

\* C7: runQuery never raises, whatever the query text and the state of the
\* store, and its result is empty whenever the backend fails: text that is
\* not SQL, an unknown table or column, a closed connection.
C7_RunQueryNeverRaises ==
    [][IsCall(last', "query_sql") =>
         LET query == last'.query
         IN  /\ last'.result.status = "ok"
             /\ (\/ ~conn_open
                 \/ query.kind = "malformed"
                 \/ query.table \notin DOMAIN tables
                 \/ /\ query.kind = "select"
                    /\ query.column # <<"*">>
                    /\ query.column \notin Range(tables[query.table].columns))
                => /\ last'.result.index = <<>>
                   /\ last'.result.frame = EmptyFrame]_vars

\* runQuery selected from a table that exists, on a closed store, and
\* returned the empty result
C7_Witness ==
    /\ last.op = "query_sql"
    /\ ~conn_open
    /\ last.query.kind = "select"
    /\ last.query.table \in DOMAIN tables
    /\ tables[last.query.table].rows # <<>>
    /\ last.result = Returned(<<>>, EmptyFrame)

\* C8: the connection is released exactly once, by the first close; every
\* close succeeds and leaves the datasets and the mirror alone, and a close of
\* a closed store changes nothing.
C8_CloseReleasesOnce ==
    /\ [](releases = IF conn_open THEN 0 ELSE 1)
    /\ [][IsCall(last', "close") =>
            /\ last'.result.status = "ok"
            /\ ~conn_open'
            /\ releases' = 1
            /\ <<data', metadata', indexes', tables'>>
                 = <<data, metadata, indexes, tables>>
            /\ ~conn_open => store' = store]_vars

\* a second close, on a store that holds a dataset and its mirror table
C8_Witness ==
    /\ last.op = "close"
    /\ ~last.was_open
    /\ DOMAIN data # {}
    /\ DOMAIN tables # {}
    /\ releases = 1

\* the store has a step that answers a range query
RangeQueryOffered == ENABLED (Next /\ last'.op = "range_query")

\* C9: the store offers rangeQuery over the sorted index of a Number column
\* of a registered dataset.
C9_RangeQueryOffered ==
    (\E name \in DOMAIN indexes :
        indexes[name].numeric_columns # EmptyDict) => RangeQueryOffered

\* C10: registering the same dataset again under the same name leaves the
\* store as the first registration left it, with the same outcome, so every
\* later describe, filterEquals, aggregate and runQuery answers the same.
C10_RegisterIdempotent ==
    last.op = "add_dataset" =>
       LET again == add_dataset_effect(data, metadata, indexes, tables, conn_open,
                                       last.name, last.df, last.column_types)
       IN  /\ again.status = last.result.status
           /\ again.data = data
           /\ again.metadata = metadata
           /\ again.indexes = indexes
           /\ again.tables = tables
           /\ MirrorSeen(again.tables, conn_open, last.name)
                = MirrorSeen(tables, conn_open, last.name)

\* a registration that succeeded on an open store, a second dataset being
\* held, and loaded a mirror table with rows
C10_Witness ==
    /\ last.op = "add_dataset"
    /\ last.result.status = "ok"
    /\ conn_open
    /\ Cardinality(DOMAIN data) = 2
    /\ _sanitize_table_name(last.name) \in DOMAIN tables
    /\ tables[_sanitize_table_name(last.name)].rows # <<>>

\* C19: when the index of one column cannot be built, the registration
\* still completes: the rows are stored, the index of every other Date and
\* String column is built, and the mirror table is loaded.
C19_IndexFailureDegrades ==
    [][/\ IsCall(last', "add_dataset")
       /\ IndexBuildError(last'.df, last'.column_types) # "ok"
       => LET name == last'.name
              df == last'.df
              table_name == _sanitize_table_name(name)
          IN  /\ last'.result.status = "ok"
              /\ data'[name] = df
              /\ name \in DOMAIN indexes'
              /\ \A i \in DOMAIN last'.column_types :
                    LET e == last'.column_types[i]
                    IN  /\ IsDateEntry(e) /\ e.col \in Range(df.columns) =>
                              /\ e.col \in DOMAIN indexes'[name].date_columns
                              /\ indexes'[name].date_columns[e.col]
                                   = DateIndexOf(df, e.col)
                        /\ IsCategoryEntry(e) /\ e.col \in Range(df.columns) =>
                              /\ e.col \in DOMAIN indexes'[name].category_columns
                              /\ indexes'[name].category_columns[e.col]
                                   = CategoryIndexOf(df, e.col)
              /\ table_name \in DOMAIN tables'
              /\ Len(tables'[table_name].rows) = Len(df.rows)]_vars

\* C20: filterEquals, aggregate, describe and runQuery leave the rows, the
\* column metadata, the indexes and the mirror tables as they were.
C20_ReadsArePure ==
    [][last'.op \in {"query_by_criteria", "aggregate_data",
                     "get_dataset_info", "query_sql"}
       => <<data', metadata', indexes', tables'>>
            = <<data, metadata, indexes, tables>>]_vars

(***************************************************************************)
(* Properties of the read operations (under SpecRead)                      *)
(***************************************************************************)
\* the rows a linear equality scan keeps: the cell equals the value in every
\* filter column
ScanRows(df, filters) ==
    {r \in Range(RowIds(df)) :
       \A i \in DOMAIN filters :
          r \in ScanMatches(df, filters[i].col, filters[i].value)}

\* C3: for a registered dataset and filters over its columns, filterEquals
\* returns exactly the rows a linear equality scan keeps, in ascending row-id
\* order; with no filter it returns every row.
C3_FilterIsLinearScan ==
    /\ last.op = "query_by_criteria"
    /\ last.name \in DOMAIN data
    /\ \A i \in DOMAIN last.filters :
          last.filters[i].col \in Range(data[last.name].columns)
    => LET df == data[last.name]
           expected == sorted(ScanRows(df, last.filters))
       IN  /\ last.result.status = "ok"
           /\ last.result.index = expected
           /\ last.result.frame.rows = iloc(df, expected)
           /\ last.filters = <<>> => last.result.frame.rows = df.rows

\* the tuples of group-by values that occur in the rows, null keys left out
GroupKeys(df, group_by) ==
    {k \in {[i \in DOMAIN group_by |-> Column(df, group_by[i])[r]] :
              r \in DOMAIN df.rows} :
       \A i \in DOMAIN k : notna(k[i])}

\* the non-null values of column m in the rows of df whose group tuple is key
GroupValues(df, group_by, key, m) ==
    LET member(r) == \A i \in DOMAIN group_by : Column(df, group_by[i])[r] = key[i]
        rows == SelectSeq([r \in DOMAIN df.rows |-> r], member)
    IN  SelectSeq([j \in DOMAIN rows |-> Column(df, m)[rows[j]]], notna)

\* a column of Decimals (and nulls), one Decimal at least
DecimalColumn(df, m) ==
    /\ m \in Range(df.columns)
    /\ \A i \in DOMAIN df.rows :
          isdecimal(Column(df, m)[i]) \/ ~notna(Column(df, m)[i])
    /\ \E i \in DOMAIN df.rows : isdecimal(Column(df, m)[i])

\* C5: aggregate over decimal measures returns one row per distinct tuple of
\* group-by values, and m_sum, m_mean and m_count hold the sum, the mean and
\* the count of the group's non-null m values.
C5_AggregateOneRowPerGroup ==
    /\ last.op = "aggregate_data"
    /\ last.name \in DOMAIN data
    /\ last.group_by # <<>>
    /\ Range(last.group_by) \subseteq Range(data[last.name].columns)
    /\ last.measures # <<>>
    /\ Range(last.measures) \cap Range(last.group_by) = {}
    /\ \A i \in DOMAIN last.measures : DecimalColumn(data[last.name], last.measures[i])
    => LET df == data[last.name]
           group_by == last.group_by
           frame == last.result.frame
           keys == GroupKeys(df, group_by)
           Cell(r, col) == frame.rows[r][ColPos(frame, col)]
       IN  /\ last.result.status = "ok"
           /\ Len(frame.rows) = Cardinality(keys)
           /\ \A key \in keys :
                 \E r \in DOMAIN frame.rows :
                    /\ SubSeq(frame.rows[r], 1, Len(group_by)) = key
                    /\ \A i \in DOMAIN last.measures :
                          LET m == last.measures[i]
                              values == GroupValues(df, group_by, key, m)
                              total == 1000 * SumN(values)
                          IN  /\ Range(StatColumns(m)) \subseteq Range(frame.columns)
                              /\ Cell(r, StatColumns(m)[1]) = FloatV(total)
                              /\ values # <<>> =>
                                   Cell(r, StatColumns(m)[2])
                                     = FloatV(total \div Len(values))
                              /\ Cell(r, StatColumns(m)[3]) = IntV(Len(values))

\* C6: aggregate with a group-by or measure name that is not a column fails
\* with MissingColumn, the error names every absent group-by column and every
\* absent measure column, and no aggregate is computed.
C6_MissingColumnNamesAll ==
    /\ last.op = "aggregate_data"
    /\ last.name \in DOMAIN data
    /\ ~(Range(last.group_by) \cup Range(last.measures)
           \subseteq Range(data[last.name].columns))
    => LET columns == Range(data[last.name].columns)
       IN  /\ last.result.status = "MissingColumn"
           /\ Range(last.result.missing_group) = Range(last.group_by) \ columns
           /\ Range(last.result.missing_meas) = Range(last.measures) \ columns
           /\ last.result.frame = EmptyFrame

\* aggregate was refused over a dataset with rows, two group-by names and two
\* measure names being absent
C6_Witness ==
    /\ last.op = "aggregate_data"
    /\ last.name \in DOMAIN data
    /\ data[last.name].rows # <<>>
    /\ last.result.status = "MissingColumn"
    /\ Len(last.result.missing_group) = 2
    /\ Len(last.result.missing_meas) = 2

\* C18: filterEquals with a filter on a column the dataset does not have
\* raises an error to the caller instead of returning rows.
C18_UnknownFilterColumnRaises ==
    /\ last.op = "query_by_criteria"
    /\ last.name \in DOMAIN data
    /\ \E i \in DOMAIN last.filters :
          last.filters[i].col \notin Range(data[last.name].columns)
    => last.result.status # "ok"

(***************************************************************************)
(* Calls of the parser and of the detector.  Both are stateless: a call is *)
(* pending with its argument in the initial state, and the step is the     *)
(* call returning or raising.                                              *)
(***************************************************************************)
Pending(fn, arg) == [op |-> "call", fn |-> fn, arg |-> arg]
Done(fn, arg, result) == [op |-> fn, arg |-> arg, result |-> result]

\* the texts of at most n characters over an alphabet
RECURSIVE Texts(_, _)
Texts(alphabet, n) ==
    IF n = 0 THEN {<<>>}
    ELSE Texts(alphabet, n - 1)
           \cup {Append(t, ch) : t \in Texts(alphabet, n - 1), ch \in alphabet}

MaxLen == 5
SeparatorChars == {"0", "1", ".", ","}
European == <<"1", ".", "2", "3", "4", ",", "5", "6">>
SeparatorTexts == Texts(SeparatorChars, MaxLen) \cup {European}

\* amounts: a short number bare, after a currency symbol, in parentheses,
\* before a minus, and the texts of the documentation
MaxAmountLen == 3
Wrapped(t) ==
    {t, <<"$">> \o t, t \o <<"€">>, <<"(">> \o t \o <<")">>, t \o <<"-">>}

USDollars == <<"$", "1", ",", "2", "3", "4", ".", "5", "6">>
USParentheses == <<"(", "2", ",", "5", "0", "0", ".", "0", "0", ")">>
Millions == <<"1", ".", "5", "M">>
SignallingNaN == <<"(", "s", "n", "a", "n", ",", ")">>
SignallingNaNMinus == <<"s", "n", "a", "n", ",", "-">>

AmountTexts ==
    UNION {Wrapped(t) : t \in Texts({"1", ".", ","}, MaxAmountLen)}
      \cup {USDollars, USParentheses, Millions, European, SignallingNaN,
            SignallingNaNMinus, <<"a", "b", "c">>, <<"2", "k">>,
            <<"n", "a", "n", ",">>, <<" ", "7", " ">>}

AmountValues ==
    {Text(t) : t \in AmountTexts} \cup {Null, IntV(5), IntV(0 - 5), FloatV(150000)}

\* dates: a/b/YYYY, quarters, Excel serials and one text for each other rule
DayMonthFields ==
    {<<"1">>, <<"0", "4">>, <<"1", "2">>, <<"1", "3">>, <<"3", "0">>, <<"3", "1">>}
YearFields == {<<"2", "0", "2", "3">>, <<"2", "0", "2", "4">>}
SlashTexts ==
    {a \o <<"/">> \o b \o <<"/">> \o y :
        a \in DayMonthFields, b \in DayMonthFields, y \in YearFields}

QuarterYears ==
    {<<"0", "0">>, <<"0", "5">>, <<"0", "9">>, <<"1", "0">>, <<"2", "4">>,
     <<"4", "9">>, <<"5", "0">>, <<"9", "9">>, <<"1", "2", "3">>,
     <<"0", "0", "2", "4">>, <<"2", "0", "2", "4">>}
QuarterTexts ==
    {<<"Q", q>> \o sep \o y :
        q \in {"1", "2", "3", "4", "5"}, sep \in {<<>>, <<"-">>, <<" ">>},
        y \in QuarterYears}

Serials == {0 - 1, 0, 1, 2, 59, 60, 61, 44927, 106751, 106752, 2958465, 2958466}

OtherDateTexts ==
    {<<"2", "0", "2", "3", "-", "1", "2", "-", "3", "1">>,
     <<"2", "0", "2", "3", "-", "0", "2", "-", "3", "0">>,
     <<"2", "0", "2", "4", "-", "1", "-", "5">>,
     <<"0", "1", "-", "J", "a", "n", "-", "2", "0", "2", "4">>,
     <<"M", "a", "r", "c", "h", " ", "2", "0", "2", "4">>,
     <<"J", "a", "n", " ", " ", "2", "0", "2", "4">>,
     <<"Q", "u", "a", "r", "t", "e", "r", " ", "1", " ", "2", "0", "2", "4">>,
     <<"1", "/", " ", "5", "/", "2", "0", "2", "4">>,
     <<"4", "4", "9", "2", "7">>, <<"a", "b", "c">>, <<>>}

DateTexts == SlashTexts \cup QuarterTexts \cup OtherDateTexts

DateValues ==
    {Text(t) : t \in DateTexts} \cup {IntV(n) : n \in Serials}
      \cup {Null, FloatV(150000)}

\* the texts the detector is given: those of the dates and of the serials
DetectTexts == DateTexts \cup {str(IntV(n)) : n \in Serials}

\* columns: d dates, n numbers, t texts, k values that are passed over and
\* z nulls, in this order, MaxSample values at most
MaxSample == 10
IsoDate == Text(<<"2", "0", "2", "3", "-", "1", "2", "-", "3", "1">>)
DateLike == <<IsoDate, IntV(44927)>>
NumberLike == <<Text(<<"1", ".", "5">>), FloatV(250000)>>
TextLike == <<Text(<<"a", "b", "c">>), Text(<<"x", "y", "z">>)>>
PassedOver == <<Dec(1250), Jan15>>

Repeat(v, n) == [i \in 1..n |-> v]

Columns ==
    {Repeat(DateLike[f], d) \o Repeat(NumberLike[f], n) \o Repeat(TextLike[f], t)
       \o Repeat(PassedOver[f], k) \o Repeat(Null, z) :
        <<f, d, n, t, k, z>> \in
           {c \in (1..2) \X (0..MaxSample) \X (0..MaxSample) \X (0..MaxSample)
                    \X (0..2) \X (0..1) :
               c[2] + c[3] + c[4] + c[5] + c[6] <= MaxSample}}

InitParse ==
    /\ data = EmptyDict
    /\ metadata = EmptyDict
    /\ indexes = EmptyDict
    /\ tables = EmptyDict
    /\ conn_open = TRUE
    /\ releases = 0
    /\ \/ \E value \in AmountValues : last = Pending("parse_amount", value)
       \/ \E s \in SeparatorTexts : last = Pending("_clean_and_parse_number", s)
       \/ \E value \in DateValues : last = Pending("parse_date", value)
       \/ \E value \in DetectTexts : last = Pending("detect_date_format", value)
       \/ \E column \in Columns : last = Pending("detect_column_type", column)

IsPending(fn) == last.op = "call" /\ last.fn = fn

parse_amount ==
    /\ IsPending("parse_amount")
    /\ last' = Done("parse_amount", last.arg, parse_amount_result(last.arg))
    /\ UNCHANGED store

clean_and_parse_number ==
    /\ IsPending("_clean_and_parse_number")
    /\ last' = Done("_clean_and_parse_number", last.arg,
                        _clean_and_parse_number(last.arg))
    /\ UNCHANGED store

parse_date ==
    /\ IsPending("parse_date")
    /\ last' = Done("parse_date", last.arg, parse_date_result(last.arg))
    /\ UNCHANGED store

detect_date_format ==
    /\ IsPending("detect_date_format")
    /\ last' = Done("detect_date_format", last.arg,
                        detect_date_format_result(last.arg))
    /\ UNCHANGED store

detect_column_type ==
    /\ IsPending("detect_column_type")
    /\ last' = Done("detect_column_type", last.arg,
                        detect_column_type_result(last.arg))
    /\ UNCHANGED store

NextParse ==
    \/ parse_amount
    \/ clean_and_parse_number
    \/ parse_date
    \/ detect_date_format
    \/ detect_column_type

SpecParse == InitParse /\ [][NextParse]_vars

(***************************************************************************)
(* Properties of the parser and of the detector (under SpecParse)          *)
(***************************************************************************)
\* C12: parse_amount reads a US-formatted amount at its face value, also
\* after a currency symbol or in accounting parentheses: "$1,234.56" is
\* 1234.56, "(2,500.00)" is -2500.00 and "1.5M" is 1500000.
C12_USAmountsAtFaceValue ==
    last.op = "parse_amount" /\ last.arg.k = "str" =>
       /\ last.arg.s = USDollars =>
             last.result = AmountReturned(Finite(123456, 0 - 2))
       /\ last.arg.s = USParentheses =>
             last.result = AmountReturned(Finite(0 - 2500, 0))
       /\ last.arg.s = Millions =>
             last.result = AmountReturned(Finite(1500000, 0))

\* the number a text of digits, '.' and ',' stands for once its separators
\* are resolved
SeparatorsResolved(s) ==
    IF "." \in Range(s) /\ "," \in Range(s)
    THEN Replace(Without(s, "."), ",", ".")
    ELSE IF "," \in Range(s) THEN Without(s, ",")
    ELSE s

IsSlashDate(s) ==
    LET f == Fields(s, "/")
    IN  Len(f) = 3 /\ DigitField(f[1], 1, 2) /\ DigitField(f[2], 1, 2)
        /\ DigitField(f[3], 4, 4)

\* C14: for a text a/b/YYYY, parse_date returns the date (YYYY, month b,
\* day a) when a > 12 and the date (YYYY, month a, day b) when a <= 12,
\* whenever that reading is a date of the calendar.
C14_DayFirstAbove12 ==
    last.op = "parse_date" /\ last.arg.k = "str" /\ IsSlashDate(last.arg.s) =>
       LET f == Fields(last.arg.s, "/")
           a == int(f[1])
           b == int(f[2])
           year == int(f[3])
       IN  /\ a > 12 /\ ValidDate(year, b, a) =>
                last.result = DateReturned(DateV(year * 10000 + b * 100 + a))
           /\ a <= 12 /\ ValidDate(year, a, b) =>
                last.result = DateReturned(DateV(year * 10000 + a * 100 + b))

\* C15: for Qn with n in 1..4, parse_date returns the first day of month
\* 3*(n-1)+1 of the year; a year of two digits yy stands for 2000+yy when
\* yy < 50 and for 1900+yy when yy >= 50, for every yy from 00 to 99, and
\* a year of four digits is taken as written.
C15_QuarterYearPivot ==
    last.op = "parse_date" /\ last.arg.k = "str" /\ MatchQuarter(last.arg.s) =>
       LET digits == TrailingDigits(Tail(Tail(last.arg.s)))
           yy == int(digits)
           month == 3 * (int(<<last.arg.s[2]>>) - 1) + 1
           year == IF Len(digits) = 2
                   THEN (IF yy < 50 THEN 2000 + yy ELSE 1900 + yy)
                   ELSE yy
       IN  Len(digits) \in {2, 4} /\ year >= 1 =>
              last.result = DateReturned(DateV(year * 10000 + month * 100 + 1))

\* C16: parse_amount and parse_date never raise, whatever the raw value: a
\* null, a text that matches no rule and a text that names an impossible
\* number or date all give None.
C16_ParsersNeverRaise ==
    last.op \in {"parse_amount", "parse_date"} => last.result.status = "ok"

\* C17: the detector's date matcher and parse_date accept the same Excel
\* serials from the same epoch: n is a date match exactly when
\* 1 <= n <= 2958465, parse_date(n) is 1899-12-30 plus n days for exactly
\* those n (44927 is 2023-01-01), and 0, 1, 2958465 and 2958466 are treated
\* alike by both.
C17_SameSerialRange ==
    /\ last.op = "detect_date_format" /\ isdigit(last.arg) /\ Len(last.arg) <= 7 =>
          (last.result.is_match <=> int(last.arg) \in 1..2958465)
    /\ last.op = "parse_date" /\ last.arg.k = "int" =>
          /\ last.result.status = "ok"
          /\ last.arg.n \in 1..2958465 =>
                LET dt == fromordinal(693594 + last.arg.n)
                IN  last.result.value
                      = DateV(dt.year * 10000 + dt.month * 100 + dt.day)
          /\ last.arg.n \notin 1..2958465 => last.result.value = Null
          /\ last.arg.n = 44927 => last.result.value = DateV(20230101)

\* the values of a column that are in a sequence of representatives
CountOf(column, representatives) ==
    Cardinality({i \in DOMAIN column : column[i] \in Range(representatives)})

\* the result the decision rule gives for d date matches and n number
\* matches in a sample of size values, the confidence being Conf(k, size)
Decision(d, n, size, Conf(_, _), result) ==
    IF 10 * d > 7 * size
    THEN result.type = "Date" /\ Conf(d, size)
    ELSE IF 10 * n > 7 * size
    THEN result.type = "Number" /\ Conf(n, size)
    ELSE result.type = "String" /\ Conf(size - Max(d, n), size)

Classified(Conf(_, _)) ==
    last.op = "detect_column_type" =>
       LET size == Len(SelectSeq(last.arg, notna))
       IN  size > 0 =>
              Decision(CountOf(last.arg, DateLike), CountOf(last.arg, NumberLike),
                       size, Conf, last.result)

\* C11 as stated: for a column with a non-null value, detect_column_type
\* counts a sampled value as a date match or, if it is none, as a number
\* match, divides both counts by the sample size, values passed over
\* included, and returns Date with confidence date_score when
\* date_score > 0.7, else Number with confidence number_score when
\* number_score > 0.7, else String with confidence
\* 1 - max(date_score, number_score): the confidence is the score itself.
C11_ConfidenceIsScore ==
    LET Exact(k, size) == last.result.confidence * size = 1000 * k
    IN  Classified(Exact)

\* C11 amended: the same counts, scores and thresholds (a score of exactly
\* 0.7 does not reach the threshold), the confidence being the score rounded
\* to three decimal places; 8 date matches of 10 give Date with 0.8.
C11_ConfidenceIsRoundedScore ==
    LET Rounded(k, size) ==
           /\ 2 * size * last.result.confidence <= 2000 * k + size
           /\ 2 * size * last.result.confidence >= 2000 * k - size
    IN  Classified(Rounded)

C11_Witness ==
    /\ last.op = "detect_column_type"
    /\ last.arg = Repeat(IsoDate, 8) \o Repeat(TextLike[1], 2)
    /\ last.result.type = "Date"
    /\ last.result.confidence = 800

=============================================================================
